---- MODULE Spec2Model ----
(***************************************************************************)
(* Bundle adjustment (ba_in_the_large): the BAL data loader, the           *)
(* projection model, the residual evaluator, the Jacobian sparsity         *)
(* builder and the two solver back ends behind solve_bundle_adjustment.    *)
(*                                                                         *)
(* Numbers.  Array scalars are integers.  Values computed after the        *)
(* perspective division are extended rationals <<n, d>> in lowest terms:   *)
(* d > 0 is a finite value, <<1,0>> and <<-1,0>> are +inf and -inf and     *)
(* <<0,0>> is nan (numpy divides by zero without raising).  Rotation       *)
(* vectors are measured in quarter turns (pi/2) and have at most one       *)
(* nonzero component, so that norm, cos and sin are exact.                 *)
(*                                                                         *)
(* Indices are the code's 0-based indices; sequences are 1-based, so       *)
(* element k of an array is arr[k + 1].                                    *)
(***************************************************************************)
EXTENDS Integers, Sequences, FiniteSets, TLC

\* Bounds of the model.
MaxCameras == 2
MaxPoints == 2
MaxObs == 2
MaxNfev == 3

\* Widths of a camera block and of a point block in the parameter vector.
CameraBlock == 9
PointBlock == 3

VARIABLES
    CERES_AVAILABLE,   \* module flag set by the import of ba_cpp
    pc,                \* "start", "idle", "lsq_init", "lsq_iter", "raised"
    camera_params,     \* caller's array (n_cameras, 9)
    points_3d,         \* caller's array (n_points, 3)
    camera_indices,    \* caller's array (n_observations,)
    point_indices,     \* caller's array (n_observations,)
    points_2d,         \* caller's array (n_observations, 2)
    ret,               \* outcome of the last completed call
    x0,                \* solve_bundle_adjustment_scipy: packed start vector
    A,                 \* solve_bundle_adjustment_scipy: sparsity pattern
    lsq,               \* least_squares: x, residuals, nfev, njev, trust radius
    hist,              \* history of the current solve call (f0: the
                       \* residuals of its first evaluation)
    out,               \* messages the current solve call emitted itself
    proc               \* the calling program: its arguments, calls, display

vars == <<CERES_AVAILABLE, pc, camera_params, points_3d, camera_indices,
          point_indices, points_2d, ret, x0, A, lsq, hist, out, proc>>

arrays == <<camera_params, points_3d, camera_indices, point_indices, points_2d>>

-----------------------------------------------------------------------------
\* Extended rational arithmetic (IEEE doubles on the model's exact domain).

Abs(a) == IF a < 0 THEN -a ELSE a

Sgn(a) == IF a < 0 THEN -1 ELSE IF a > 0 THEN 1 ELSE 0

RECURSIVE GCD(_, _)
GCD(a, b) == IF b = 0 THEN a ELSE GCD(b, a % b)

QNorm(n, d) ==
    IF d = 0 THEN <<Sgn(n), 0>>
    ELSE LET g == GCD(Abs(n), Abs(d))
             s == IF d < 0 THEN -1 ELSE 1
         IN  <<(s * n) \div g, (s * d) \div g>>

Q(i) == <<i, 1>>

QFinite(a) == a[2] # 0

QNeg(a) == <<-a[1], a[2]>>

QAdd(a, b) ==
    IF a[2] = 0 /\ b[2] = 0
    THEN (IF a = b THEN a ELSE <<0, 0>>)
    ELSE QNorm(a[1] * b[2] + b[1] * a[2], a[2] * b[2])

QSub(a, b) == QAdd(a, QNeg(b))

QMul(a, b) == QNorm(a[1] * b[1], a[2] * b[2])

QDiv(a, b) == QNorm(a[1] * b[2], a[2] * b[1])

QLess(a, b) == QFinite(a) /\ QFinite(b) /\ a[1] * b[2] < b[1] * a[2]

RECURSIVE Isqrt(_, _)
Isqrt(n, r) == IF (r + 1) * (r + 1) > n THEN r ELSE Isqrt(n, r + 1)

\* cos and sin of theta quarter turns.
CosQ(theta) == CASE theta % 4 = 0 -> 1 [] theta % 4 = 2 -> -1 [] OTHER -> 0

SinQ(theta) == CASE theta % 4 = 1 -> 1 [] theta % 4 = 3 -> -1 [] OTHER -> 0

-----------------------------------------------------------------------------
\* numpy array helpers.

Range(n) == 0 .. (n - 1)

\* A numpy integer index into an axis of length n: negative indices count
\* from the end, anything outside [-n, n) raises IndexError.
IndexOk(k, n) == -n <= k /\ k < n

Wrap(k, n) == IF k < 0 THEN k + n ELSE k

\* arr[idx] with an integer index array: a new array (a copy, never a view).
Take(arr, idx) ==
    IF \E i \in DOMAIN idx : ~IndexOk(idx[i], Len(arr))
    THEN [err |-> "IndexError", val |-> <<>>]
    ELSE [err |-> "none",
          val |-> [i \in DOMAIN idx |-> arr[Wrap(idx[i], Len(arr)) + 1]]]

RECURSIVE Ravel(_)
Ravel(rows) == IF rows = <<>> THEN <<>> ELSE Head(rows) \o Ravel(Tail(rows))

\* flat.reshape((rows, width)) on a flat array of rows * width scalars.
Reshape(flat, rows, width) ==
    [r \in 1 .. rows |-> [k \in 1 .. width |-> flat[(r - 1) * width + k]]]

-----------------------------------------------------------------------------
\* Rotation and projection model (ba_solver.py, rotate and project).

Dot3(a, b) == a[1] * b[1] + a[2] * b[2] + a[3] * b[3]

Cross3(a, b) == <<a[2] * b[3] - a[3] * b[2],
                  a[3] * b[1] - a[1] * b[3],
                  a[1] * b[2] - a[2] * b[1]>>

\* theta = np.linalg.norm(rot_vecs, axis=1), one row.
Theta(rv) == Isqrt(Dot3(rv, rv), 0)

\* rot_vecs / theta, one scalar and one row: the division is made whatever
\* theta is, and theta = 0 gives 0/0 = nan in every component (errstate hides
\* the warning).
Quotient(a, theta) == QDiv(Q(a), Q(theta))

UnitAxis(rv) == [k \in 1 .. 3 |-> Quotient(rv[k], Theta(rv))]

\* np.nan_to_num on one scalar: nan becomes 0.  (An infinite quotient needs
\* theta = 0 with a nonzero component, which an exact norm never gives.)
NanToNum(q) == IF q = <<0, 0>> THEN 0 ELSE q[1] \div q[2]

\* One row of rotate: Rodrigues' formula, with no branch on theta.
Rodrigues(p, rv) ==
    LET theta == Theta(rv)
        v     == <<NanToNum(Quotient(rv[1], theta)),
                   NanToNum(Quotient(rv[2], theta)),
                   NanToNum(Quotient(rv[3], theta))>>
        dot   == Dot3(p, v)
        cos_theta == CosQ(theta)
        sin_theta == SinQ(theta)
        cr    == Cross3(v, p)
    IN  [k \in 1 .. 3 |->
            cos_theta * p[k] + sin_theta * cr[k] + dot * (1 - cos_theta) * v[k]]

\* Faulty variant of rotate: with no rotation at all it hands back its
\* argument instead of computing a new array.
rotate_returning_argument(points, rot_vecs) ==
    IF \A i \in DOMAIN rot_vecs : rot_vecs[i] = <<0, 0, 0>>
    THEN [val |-> points, is_arg |-> TRUE]
    ELSE [val    |-> [i \in DOMAIN points |-> Rodrigues(points[i], rot_vecs[i])],
          is_arg |-> FALSE]

\* rotate returns a new array: the value of an arithmetic expression.
\* is_arg says whether the returned object is the `points` argument itself.
rotate(points, rot_vecs) ==
    [val    |-> [i \in DOMAIN points |-> Rodrigues(points[i], rot_vecs[i])],
     is_arg |-> FALSE]

\* Faulty variant of Pixel: x and y are divided by the depth without the
\* sign flip.
PixelUnflipped(pp, cam) ==
    LET x  == QDiv(Q(pp[1]), Q(pp[3]))
        y  == QDiv(Q(pp[2]), Q(pp[3]))
        f  == Q(cam[7])
        k1 == Q(cam[8])
        k2 == Q(cam[9])
        n  == QAdd(QMul(x, x), QMul(y, y))
        r  == QAdd(QAdd(Q(1), QMul(k1, n)), QMul(k2, QMul(n, n)))
    IN  <<QMul(x, QMul(r, f)), QMul(y, QMul(r, f))>>

\* One row of project after the translation: perspective division with the
\* sign flip, radial distortion, focal length.
Pixel(pp, cam) ==
    LET x  == QDiv(Q(-pp[1]), Q(pp[3]))
        y  == QDiv(Q(-pp[2]), Q(pp[3]))
        f  == Q(cam[7])
        k1 == Q(cam[8])
        k2 == Q(cam[9])
        n  == QAdd(QMul(x, x), QMul(y, y))
        r  == QAdd(QAdd(Q(1), QMul(k1, n)), QMul(k2, QMul(n, n)))
    IN  <<QMul(x, QMul(r, f)), QMul(y, QMul(r, f))>>

\* project(points, camera_params): val is the returned (n, 2) array; points
\* is the content of the caller's `points` argument when the call returns
\* (`points_proj += ...` writes into whatever object rotate returned; the
\* later `points_proj = ...` rebinds the name to a new array).
project(points, cams) ==
    LET rot == rotate(points, [i \in DOMAIN cams |-> SubSeq(cams[i], 1, 3)])
        translated == [i \in DOMAIN points |->
                          [k \in 1 .. 3 |-> rot.val[i][k] + cams[i][3 + k]]]
    IN  [val    |-> [i \in DOMAIN points |-> Pixel(translated[i], cams[i])],
         points |-> IF rot.is_arg THEN translated ELSE points]

-----------------------------------------------------------------------------
\* Residual evaluator (ba_solver.py, compute_residuals).

\* params[:n_cameras * 9].reshape((n_cameras, 9))
UnpackCameras(params, n_cameras) ==
    Reshape(SubSeq(params, 1, n_cameras * CameraBlock), n_cameras, CameraBlock)

\* params[n_cameras * 9:].reshape((n_points, 3))
UnpackPoints(params, n_cameras, n_points) ==
    Reshape(SubSeq(params, n_cameras * CameraBlock + 1, Len(params)),
            n_points, PointBlock)

\* Faulty variant of compute_residuals: the result is flattened column by
\* column (all x residuals, then all y residuals).
residuals_column_major(params, n_cameras, n_points, cam_idx, pt_idx, pixels) ==
    LET selp == Take(UnpackPoints(params, n_cameras, n_points), pt_idx)
        selc == Take(UnpackCameras(params, n_cameras), cam_idx)
    IN  IF selp.err # "none" \/ selc.err # "none"
        THEN [err |-> "IndexError", val |-> <<>>, params |-> params]
        ELSE LET points_proj == project(selp.val, selc.val).val
             IN  [err |-> "none",
                  val |-> [i \in DOMAIN pixels |->
                              QSub(points_proj[i][1], Q(pixels[i][1]))]
                          \o [i \in DOMAIN pixels |->
                              QSub(points_proj[i][2], Q(pixels[i][2]))],
                  params |-> params]

\* The slices of params and their reshapes are views of params; the
\* integer-array indexing hands copies to project, so nothing project writes
\* reaches params.  A params of another length cannot be reshaped.
compute_residuals(params, n_cameras, n_points, cam_idx, pt_idx, pixels) ==
    IF Len(params) # n_cameras * CameraBlock + n_points * PointBlock
    THEN [err |-> "ValueError", val |-> <<>>, params |-> params]
    ELSE
    LET cams == UnpackCameras(params, n_cameras)
        pts  == UnpackPoints(params, n_cameras, n_points)
        selp == Take(pts, pt_idx)
        selc == Take(cams, cam_idx)
    IN  IF selp.err # "none" \/ selc.err # "none"
        THEN [err |-> "IndexError", val |-> <<>>, params |-> params]
        ELSE LET points_proj == project(selp.val, selc.val).val
             IN  [err |-> "none",
                  val |-> Ravel([i \in DOMAIN pixels |->
                                   <<QSub(points_proj[i][1], Q(pixels[i][1])),
                                     QSub(points_proj[i][2], Q(pixels[i][2]))>>]),
                  params |-> params]

-----------------------------------------------------------------------------
\* Sparsity pattern builder (ba_solver.py, bundle_adjustment_sparsity).
\* A lil_matrix is the set of its nonzero <<row, column>> positions.

\* A[rows, cols] = 1 with two index arrays of one length, on n columns:
\* scipy wraps negative indices and raises IndexError outside [-n, n).
LilAssign(M, n, rows, cols) ==
    IF M.err # "none" THEN M
    ELSE IF \E i \in DOMAIN cols : ~IndexOk(cols[i], n)
    THEN [err |-> "IndexError", val |-> {}]
    ELSE [err |-> "none",
          val |-> M.val \cup {<<rows[i], Wrap(cols[i], n)>> : i \in DOMAIN rows}]

\* Faulty variant of MarkBlocks: the assignment to rows 2*i + 1 is missing.
RECURSIVE MarkBlocksEvenOnly(_, _, _, _, _, _, _)
MarkBlocksEvenOnly(M, n, idx, base, width, count, s) ==
    IF s = count THEN M
    ELSE LET even == [i \in DOMAIN idx |-> 2 * (i - 1)]
             cols == [i \in DOMAIN idx |-> base + idx[i] * width + s]
         IN  MarkBlocksEvenOnly(LilAssign(M, n, even, cols),
                                n, idx, base, width, count, s + 1)

\* for s in range(count): A[2*i, base + idx*width + s] = 1, then the same
\* for rows 2*i + 1.
RECURSIVE MarkBlocks(_, _, _, _, _, _, _)
MarkBlocks(M, n, idx, base, width, count, s) ==
    IF s = count THEN M
    ELSE LET even == [i \in DOMAIN idx |-> 2 * (i - 1)]
             odd  == [i \in DOMAIN idx |-> 2 * (i - 1) + 1]
             cols == [i \in DOMAIN idx |-> base + idx[i] * width + s]
         IN  MarkBlocks(LilAssign(LilAssign(M, n, even, cols), n, odd, cols),
                        n, idx, base, width, count, s + 1)

\* Faulty variant of bundle_adjustment_sparsity: the point columns lack the
\* n_cameras * 9 offset.
sparsity_without_offset(n_cameras, n_points, cam_idx, pt_idx) ==
    LET m  == Len(cam_idx) * 2
        n  == n_cameras * CameraBlock + n_points * PointBlock
        A0 == [err |-> "none", val |-> {}]
        A1 == MarkBlocks(A0, n, cam_idx, 0, CameraBlock, CameraBlock, 0)
        A2 == MarkBlocks(A1, n, pt_idx, 0, PointBlock, PointBlock, 0)
    IN  [err |-> A2.err, val |-> A2.val, shape |-> <<m, n>>]

\* Faulty variant of bundle_adjustment_sparsity: an observation that repeats
\* the camera and point of an earlier one gets no entries of its own.
sparsity_merging_duplicates(n_cameras, n_points, cam_idx, pt_idx) ==
    LET m  == Len(cam_idx) * 2
        n  == n_cameras * CameraBlock + n_points * PointBlock
        A0 == [err |-> "none", val |-> {}]
        A1 == MarkBlocks(A0, n, cam_idx, 0, CameraBlock, CameraBlock, 0)
        A2 == MarkBlocks(A1, n, pt_idx, n_cameras * CameraBlock, PointBlock,
                         PointBlock, 0)
        repeats(j) == \E i \in 1 .. (j - 1) :
                          cam_idx[i] = cam_idx[j] /\ pt_idx[i] = pt_idx[j]
    IN  [err |-> A2.err,
         val |-> {e \in A2.val : ~repeats((e[1] \div 2) + 1)},
         shape |-> <<m, n>>]

bundle_adjustment_sparsity(n_cameras, n_points, cam_idx, pt_idx) ==
    LET m  == Len(cam_idx) * 2
        n  == n_cameras * CameraBlock + n_points * PointBlock
        A0 == [err |-> "none", val |-> {}]
        A1 == MarkBlocks(A0, n, cam_idx, 0, CameraBlock, CameraBlock, 0)
        A2 == MarkBlocks(A1, n, pt_idx, n_cameras * CameraBlock, PointBlock,
                         PointBlock, 0)
    IN  [err |-> A2.err, val |-> A2.val, shape |-> <<m, n>>]

-----------------------------------------------------------------------------
\* BAL files and the data loader (utils.py, read_bal_data).

\* The scalars a file holds for camera c and point p (1-based position in the
\* file) and the pixel of observation line i.  Camera 1 does not rotate and
\* has no distortion; camera 2 turns a quarter about z, distorts, and sees
\* point 2 at zero depth; the others turn a half about x.
FileCamera(c) ==
    CASE c = 1 -> <<0, 0, 0,  1, 0, 1,   2, 0, 0>>
      [] c = 2 -> <<0, 0, 1,  0, 0, -1,  1, 2, -1>>
      [] OTHER -> <<2, 0, 0,  0, 1, c,   1, 1, 0>>

FilePoint(p) == <<p, 1 - p, p - 1>>

FilePixel(i) == <<0 - (5 + i), i - 1>>

\* Observation lines <<camera_index, point_index>> of a file whose header
\* says nc cameras and np points: in-range lines, the last of which may hold
\* one index just outside the range.
GoodLines(nc, np) == Range(nc) \X Range(np)

BadLines(nc, np) ==
    ({-1, nc} \X Range(np)) \cup (Range(nc) \X {-1, np})

ObsLists(nc, np) ==
    UNION {
        {o \in [1 .. k -> GoodLines(nc, np) \cup BadLines(nc, np)] :
            \A i \in 1 .. (k - 1) : o[i] \in GoodLines(nc, np)}
        : k \in 0 .. MaxObs}

Files ==
    UNION {
        {[n_cameras |-> nc, n_points |-> np, obs |-> o] : o \in ObsLists(nc, np)}
        : <<nc, np>> \in (0 .. MaxCameras) \X (0 .. MaxPoints)}

\* The files the solver runs are given: line i pairs the cameras and points
\* in turn, and the last line may hold one index just outside the range.
TurnLine(i, nc, np) == <<(i - 1) % nc, ((i - 1) \div nc) % np>>

SolveLists(nc, np) ==
    IF nc = 0 \/ np = 0 THEN {<<>>}
    ELSE UNION {
        {[i \in 1 .. k |-> IF i = k THEN last ELSE TurnLine(i, nc, np)] :
            last \in IF k = 0 THEN {<<0, 0>>}
                     ELSE {TurnLine(k, nc, np),
                           <<-1, 0>>, <<nc, 0>>, <<0, -1>>, <<0, np>>}}
        : k \in 0 .. MaxObs}

SolveFiles ==
    UNION {
        {[n_cameras |-> nc, n_points |-> np, obs |-> o] : o \in SolveLists(nc, np)}
        : <<nc, np>> \in (0 .. MaxCameras) \X (0 .. MaxPoints)}

\* read_bal_data: the header, one line per observation, 9 scalars per camera,
\* 3 per point.  reshape((0, -1)) cannot infer the second axis of an empty
\* array and raises ValueError.  The indices are stored as read.
read_bal_data(file) ==
    LET n_cameras == file.n_cameras
        n_points  == file.n_points
        n_observations == Len(file.obs)
        cam_flat  == Ravel([c \in 1 .. n_cameras |-> FileCamera(c)])
        pt_flat   == Ravel([p \in 1 .. n_points |-> FilePoint(p)])
    IN  IF n_cameras = 0 \/ n_points = 0
        THEN [err |-> "ValueError"]
        ELSE [err |-> "none",
              camera_params  |-> Reshape(cam_flat, n_cameras, Len(cam_flat) \div n_cameras),
              points_3d      |-> Reshape(pt_flat, n_points, Len(pt_flat) \div n_points),
              camera_indices |-> [i \in 1 .. n_observations |-> file.obs[i][1]],
              point_indices  |-> [i \in 1 .. n_observations |-> file.obs[i][2]],
              points_2d      |-> [i \in 1 .. n_observations |-> FilePixel(i)]]

-----------------------------------------------------------------------------
\* Faulty variant of Pack: the point blocks come first.
PackPointsFirst(cams, pts) == Ravel(pts) \o Ravel(cams)

\* Packing of the parameter vector: np.hstack((camera_params.ravel(),
\* points_3d.ravel())), a new array.
Pack(cams, pts) == Ravel(cams) \o Ravel(pts)

\* The value of a call that returned nothing or raised.
Nothing == [nothing |-> TRUE]

NoRet == [op |-> "none", err |-> "none", val |-> Nothing]

NoLsq == [x |-> <<>>, f |-> <<>>, nfev |-> 0, njev |-> 0, Delta |-> 0]

NoHist == [use_ceres |-> FALSE, verbose |-> 0, backends |-> <<>>,
           builds |-> 0, evals |-> 0, f0 |-> <<>>]

\* A caller that keeps no record: no --solver argument, no call logged,
\* nothing displayed, no visualizer called.
NoProc == [solver |-> "none", verbose |-> 0, calls |-> <<>>, shown |-> <<>>,
           PLOTLY_AVAILABLE |-> FALSE, engine |-> "none", visualize |-> FALSE,
           warned |-> FALSE, drawn |-> <<>>]

Init ==
    /\ CERES_AVAILABLE \in BOOLEAN
    /\ pc = "start"
    /\ camera_params = <<>>
    /\ points_3d = <<>>
    /\ camera_indices = <<>>
    /\ point_indices = <<>>
    /\ points_2d = <<>>
    /\ ret = NoRet
    /\ x0 = <<>>
    /\ A = {}
    /\ lsq = NoLsq
    /\ hist = NoHist
    /\ out = <<>>
    /\ proc = NoProc

\* main.py line 49: the data are loaded once.
ReadBalData(files) ==
    /\ pc = "start"
    /\ \E file \in files :
         LET r == read_bal_data(file)
         IN  IF r.err # "none"
             THEN /\ pc' = "raised"
                  /\ ret' = [op |-> "read_bal_data", err |-> r.err, val |-> Nothing]
                  /\ UNCHANGED arrays
             ELSE /\ pc' = "idle"
                  /\ ret' = [op |-> "read_bal_data", err |-> "none", val |-> Nothing]
                  /\ camera_params' = r.camera_params
                  /\ points_3d' = r.points_3d
                  /\ camera_indices' = r.camera_indices
                  /\ point_indices' = r.point_indices
                  /\ points_2d' = r.points_2d
    /\ UNCHANGED <<CERES_AVAILABLE, proc, x0, A, lsq, hist, out>>

\* main.py lines 64-68: pack and evaluate the residuals once.
CallComputeResiduals ==
    /\ pc = "idle"
    /\ LET params == Pack(camera_params, points_3d)
           r == compute_residuals(params, Len(camera_params), Len(points_3d),
                                  camera_indices, point_indices, points_2d)
       IN  ret' = [op |-> "compute_residuals", err |-> r.err,
                   val |-> [fun |-> r.val, params_in |-> params,
                            params_out |-> r.params]]
    /\ UNCHANGED <<CERES_AVAILABLE, proc, pc, arrays, x0, A, lsq, hist, out>>

\* A direct call of project on the caller's own arrays, one camera per point.
CallProject ==
    /\ pc = "idle"
    /\ Len(points_3d) = Len(camera_params)
    /\ LET r == project(points_3d, camera_params)
       IN  /\ ret' = [op |-> "project", err |-> "none",
                       val |-> [pixels |-> r.val]]
           /\ points_3d' = r.points
    /\ UNCHANGED <<CERES_AVAILABLE, proc, pc, camera_params, camera_indices,
                   point_indices, points_2d, x0, A, lsq, hist, out>>

\* A direct call of rotate on the caller's points and the rotation vectors of
\* the caller's cameras.  Next to the returned array, the outcome keeps the
\* quotients rot_vecs / theta as line 25 computed them.
CallRotate ==
    /\ pc = "idle"
    /\ Len(points_3d) = Len(camera_params)
    /\ LET rot_vecs == [i \in DOMAIN camera_params |->
                           SubSeq(camera_params[i], 1, 3)]
           r == rotate(points_3d, rot_vecs)
       IN  ret' = [op |-> "rotate", err |-> "none",
                   val |-> [rotated   |-> r.val,
                            quotients |-> [i \in DOMAIN rot_vecs |->
                                              UnitAxis(rot_vecs[i])]]]
    /\ UNCHANGED <<CERES_AVAILABLE, proc, pc, arrays, x0, A, lsq, hist, out>>

\* A direct call of bundle_adjustment_sparsity.
CallSparsity ==
    /\ pc = "idle"
    /\ LET r == bundle_adjustment_sparsity(Len(camera_params), Len(points_3d),
                                           camera_indices, point_indices)
       IN  ret' = [op |-> "bundle_adjustment_sparsity", err |-> r.err,
                   val |-> [nz |-> r.val, shape |-> r.shape]]
    /\ UNCHANGED <<CERES_AVAILABLE, proc, pc, arrays, x0, A, lsq, hist, out>>

-----------------------------------------------------------------------------
\* The Ceres back end (ba_cpp extension, C++): the dict it returns.  It
\* rejects out-of-range indices and otherwise returns arrays of the input
\* shapes and one residual pair per observation.
InRange(idx, n) == \A i \in DOMAIN idx : 0 <= idx[i] /\ idx[i] < n

solve_bundle_adjustment_ceres(cams, pts, cam_idx, pt_idx, pixels, detailed, success) ==
    IF ~(InRange(cam_idx, Len(cams)) /\ InRange(pt_idx, Len(pts)))
    THEN [err |-> "InvalidInput"]
    ELSE [err |-> "none",
          success |-> success,
          camera_params |-> cams,
          points_3d |-> pts,
          residuals |-> LET pr == project(Take(pts, pt_idx).val,
                                          Take(cams, cam_idx).val).val
                        IN  [i \in DOMAIN pixels |->
                               <<QSub(pr[i][1], Q(pixels[i][1])),
                                 QSub(pr[i][2], Q(pixels[i][2]))>>]]

\* The messages solve_bundle_adjustment emits itself: print and warnings.warn.
Verbosity == {0, 1, 2}

CeresMessages(verbose, success) ==
    IF verbose > 0
    THEN <<"Using Ceres Solver C++ implementation...",
           IF success THEN "Ceres optimization succeeded"
                      ELSE "Ceres optimization failed",
           "Optimization took">>
    ELSE <<>>

ScipyMessages(use_ceres, verbose) ==
    (IF use_ceres /\ ~CERES_AVAILABLE
     THEN <<"warn: Ceres Solver not available, falling back to SciPy implementation">>
     ELSE <<>>)
    \o (IF verbose > 0 THEN <<"Using SciPy implementation...">> ELSE <<>>)

\* Faulty variant of UseCeres: the availability of the extension is ignored.
UseCeresUnchecked(use_ceres) == use_ceres

\* The branch of solve_bundle_adjustment, lines 109 and 157.
UseCeres(use_ceres) == use_ceres /\ CERES_AVAILABLE

\* Faulty variant of CeresResult: fun keeps the (n_observations, 2) array.
CeresResultUnravelled(result) ==
    [success |-> result.success,
     x       |-> Pack(result.camera_params, result.points_3d),
     fun     |-> result.residuals]

\* CeresResult: x packs the returned blocks like the SciPy result, fun is
\* the flattened residual array.
CeresResult(result) ==
    [success |-> result.success,
     x       |-> Pack(result.camera_params, result.points_3d),
     fun     |-> Ravel(result.residuals)]

\* Faulty variant of AvailabilityKept: every call tries the import again.
AvailabilityRechecked == CERES_AVAILABLE' \in BOOLEAN

\* Lines 7-16 run once, when the module is imported; no statement of
\* solve_bundle_adjustment assigns CERES_AVAILABLE.
AvailabilityKept == CERES_AVAILABLE' = CERES_AVAILABLE

\* solve_bundle_adjustment, lines 109-156: the Ceres branch, a single call of
\* the extension, which returned `returned`.
CeresBranch(use_ceres, verbose, success, returned) ==
    LET result == [returned EXCEPT !.success = success]
    IN  /\ UseCeres(use_ceres)
        /\ IF returned.err # "none"
           THEN /\ ret' = [op |-> "solve_bundle_adjustment",
                           err |-> returned.err, val |-> Nothing]
                /\ out' = SubSeq(CeresMessages(verbose, success), 1,
                                 IF verbose > 0 THEN 1 ELSE 0)
           ELSE /\ ret' = [op |-> "solve_bundle_adjustment",
                           err |-> "none", val |-> CeresResult(result)]
                /\ out' = CeresMessages(verbose, success)
        /\ hist' = [use_ceres |-> use_ceres, verbose |-> verbose,
                    backends |-> <<"ceres">>, builds |-> 0, evals |-> 0,
                    f0 |-> <<>>]
        /\ x0' = <<>>
        /\ A' = {}
        /\ lsq' = NoLsq
        /\ AvailabilityKept
        /\ UNCHANGED <<pc, arrays>>

\* What the extension returns for the caller's arrays.
CeresReturned ==
    solve_bundle_adjustment_ceres(camera_params, points_3d, camera_indices,
                                  point_indices, points_2d, FALSE, TRUE)

SolveCeres ==
    /\ pc = "idle"
    /\ LET returned == CeresReturned
       IN  \E verbose \in Verbosity, success \in BOOLEAN :
             CeresBranch(TRUE, verbose, success, returned)
    /\ UNCHANGED proc

\* solve_bundle_adjustment, lines 157-172, and solve_bundle_adjustment_scipy,
\* lines 78-83: the fall-back messages, then x0 and the sparsity pattern,
\* up to the call of least_squares.
ScipyBranch(use_ceres, verbose, pattern) ==
    /\ ~UseCeres(use_ceres)
    /\ x0' = Pack(camera_params, points_3d)
    /\ IF pattern.err # "none"
       THEN /\ pc' = "idle"
            /\ A' = {}
            /\ ret' = [op |-> "solve_bundle_adjustment",
                       err |-> pattern.err, val |-> Nothing]
       ELSE /\ pc' = "lsq_init"
            /\ A' = pattern.val
            /\ ret' = NoRet
    /\ out' = ScipyMessages(use_ceres, verbose)
    /\ hist' = [use_ceres |-> use_ceres, verbose |-> verbose,
                backends |-> <<"scipy">>, builds |-> 1, evals |-> 0,
                f0 |-> <<>>]
    /\ lsq' = NoLsq
    /\ AvailabilityKept
    /\ UNCHANGED arrays

\* The pattern line 81 builds for the caller's arrays.
Pattern ==
    bundle_adjustment_sparsity(Len(camera_params), Len(points_3d),
                               camera_indices, point_indices)

SolveScipy ==
    /\ pc = "idle"
    /\ LET pattern == Pattern
       IN  \E use_ceres \in BOOLEAN, verbose \in Verbosity :
             ScipyBranch(use_ceres, verbose, pattern)
    /\ UNCHANGED proc

-----------------------------------------------------------------------------
\* least_squares(compute_residuals, x0, jac_sparsity=A, method='trf', ...):
\* the optimizer works on its own copy of x0 and calls compute_residuals back.

RECURSIVE SumSq(_)
SumSq(f) == IF f = <<>> THEN Q(0) ELSE QAdd(QMul(Head(f), Head(f)), SumSq(Tail(f)))

\* cost = 0.5 * ||f||^2
Cost(f) == QMul(<<1, 2>>, SumSq(f))

AllFinite(f) == \A i \in DOMAIN f : QFinite(f[i])

\* The trial points of one step: the current x moved by one unit along the
\* first camera's x translation or along the last block's first coordinate.
TrialCoords(x) == {4, Len(x) - 2} \cap DOMAIN x

Moved(x, k) == [x EXCEPT ![k] = @ + 1]

Fun(x) ==
    compute_residuals(x, Len(camera_params), Len(points_3d),
                      camera_indices, point_indices, points_2d)

Raise(e) ==
    /\ pc' = "idle"
    /\ ret' = [op |-> "solve_bundle_adjustment", err |-> e, val |-> Nothing]
    /\ lsq' = NoLsq
    /\ x0' = <<>>
    /\ A' = {}

\* The first evaluation, f0 = fun(x0): an exception of the callback
\* propagates, and residuals that are not finite raise ValueError.  With no
\* residual at all the library may also refuse the problem.
LsqInit ==
    /\ pc = "lsq_init"
    /\ LET r == Fun(x0)
       IN  /\ hist' = [hist EXCEPT !.evals = @ + 1, !.f0 = r.val]
           /\ \/ /\ r.err # "none"
                 /\ Raise(r.err)
              \/ /\ r.err = "none"
                 /\ ~AllFinite(r.val) \/ r.val = <<>>
                 /\ Raise("ValueError")
              \/ /\ r.err = "none"
                 /\ AllFinite(r.val)
                 /\ pc' = "lsq_iter"
                 /\ lsq' = [x |-> x0, f |-> r.val, nfev |-> 1, njev |-> 1,
                             Delta |-> 0]
                 /\ UNCHANGED <<ret, x0, A>>
    /\ UNCHANGED <<CERES_AVAILABLE, proc, arrays, out>>

\* Faulty variant of Accepts: any finite trial point is taken.
AcceptsAny(f_new) == AllFinite(f_new)

\* The step is taken when the actual reduction of the cost is positive
\* (residuals that are not finite count as no reduction).
Accepts(f_new) == AllFinite(f_new) /\ QLess(Cost(f_new), Cost(lsq.f))

\* The trust radius Delta is kept as a base-2 exponent relative to its first
\* value: a rejected step quarters it, an accepted one quarters, keeps or
\* doubles it, according to the gain ratio.
RadiusChanges == {-2, 0, 1}

\* Faulty variant of Trial: the Jacobian is evaluated again after a
\* rejected step as well.
TrialReevaluating(x_new, f_new, d) ==
    IF Accepts(f_new)
    THEN [x |-> x_new, f |-> f_new, nfev |-> lsq.nfev + 1,
          njev |-> lsq.njev + 1, Delta |-> lsq.Delta + d]
    ELSE [lsq EXCEPT !.nfev = @ + 1, !.njev = @ + 1, !.Delta = @ - 2]

\* The optimizer's state after the trial point x_new gave residuals f_new:
\* an accepted step commits x_new and evaluates the Jacobian there; a
\* rejected one keeps x, f and the Jacobian and shrinks the radius.
Trial(x_new, f_new, d) ==
    IF Accepts(f_new)
    THEN [x |-> x_new, f |-> f_new, nfev |-> lsq.nfev + 1,
          njev |-> lsq.njev + 1, Delta |-> lsq.Delta + d]
    ELSE [lsq EXCEPT !.nfev = @ + 1, !.Delta = @ - 2]

\* Faulty variant of LsqTrial: every evaluation builds the pattern again.
LsqTrialRebuilding ==
    /\ pc = "lsq_iter"
    /\ lsq.nfev < MaxNfev
    /\ \E k \in TrialCoords(lsq.x) :
         LET x_new == Moved(lsq.x, k)
             f_new == Fun(x_new).val
         IN  \E d \in RadiusChanges : lsq' = Trial(x_new, f_new, d)
    /\ hist' = [hist EXCEPT !.evals = @ + 1, !.builds = @ + 1]
    /\ A' = bundle_adjustment_sparsity(Len(camera_params), Len(points_3d),
                                       camera_indices, point_indices).val
    /\ UNCHANGED <<CERES_AVAILABLE, proc, pc, arrays, ret, x0, out>>

\* One trust-region step: evaluate the trial point, keep it when the cost
\* went down, otherwise keep x.
LsqTrial ==
    /\ pc = "lsq_iter"
    /\ lsq.nfev < MaxNfev
    /\ \E k \in TrialCoords(lsq.x) :
         LET x_new == Moved(lsq.x, k)
             f_new == Fun(x_new).val
         IN  \E d \in RadiusChanges : lsq' = Trial(x_new, f_new, d)
    /\ hist' = [hist EXCEPT !.evals = @ + 1]
    /\ UNCHANGED <<CERES_AVAILABLE, proc, pc, arrays, ret, x0, A, out>>

\* Faulty variant of Returned: when the budget is used up the start vector
\* is handed back instead of the best point found.
ReturnedDiscarding(status) ==
    [x       |-> IF status = 0 THEN x0 ELSE lsq.x,
     fun     |-> IF status = 0 THEN Fun(x0).val ELSE lsq.f,
     success |-> status > 0,
     status  |-> status,
     nfev    |-> lsq.nfev,
     njev    |-> lsq.njev]

\* The OptimizeResult of least_squares, which line 89 returns as it is.
Returned(status) ==
    [x       |-> lsq.x,
     fun     |-> lsq.f,
     success |-> status > 0,
     status  |-> status,
     nfev    |-> lsq.nfev,
     njev    |-> lsq.njev]

\* Termination: a tolerance is met (a positive status; ftol, the one the call
\* sets, stands for the four of them), or the evaluation budget is used up
\* (status 0, success False).  Line 89 returns the result as it is.
MaxNfevReached == 0

FtolMet == 2

LsqReturn ==
    /\ pc = "lsq_iter"
    /\ \E status \in {MaxNfevReached, FtolMet} :
         /\ status = MaxNfevReached => lsq.nfev = MaxNfev
         /\ ret' = [op |-> "solve_bundle_adjustment", err |-> "none",
                    val |-> Returned(status)]
    /\ pc' = "idle"
    /\ lsq' = NoLsq
    /\ x0' = <<>>
    /\ A' = {}
    /\ UNCHANGED <<CERES_AVAILABLE, proc, arrays, hist, out>>

\* The program: a file is loaded, then the functions are called on its data
\* and solve_bundle_adjustment runs on it.
Next ==
    \/ ReadBalData(SolveFiles)
    \/ CallComputeResiduals
    \/ CallProject
    \/ CallSparsity
    \/ SolveCeres
    \/ SolveScipy
    \/ LsqInit
    \/ LsqTrial
    \/ LsqReturn

Spec == Init /\ [][Next]_vars

\* The functions alone, called one by one on the data of any file.
NextCalls ==
    \/ ReadBalData(Files)
    \/ CallComputeResiduals
    \/ CallProject
    \/ CallSparsity

SpecCalls == Init /\ [][NextCalls]_vars

\* rotate alone, called on the data of any file.
NextRotate ==
    \/ ReadBalData(Files)
    \/ CallRotate

SpecRotate == Init /\ [][NextRotate]_vars

\* A call of least_squares that has begun and not yet returned or raised.
InLeastSquares == pc \in {"lsq_init", "lsq_iter"}

\* One step of the running call (LsqInit, LsqTrial or LsqReturn): the only
\* steps that leave a position of the call or evaluate the residuals again.
LsqStep == InLeastSquares /\ (pc' # pc \/ lsq'.nfev # lsq.nfev)

\* The interpreter keeps running a call of least_squares that has begun:
\* WF_vars(LsqStep), written with the enabling condition of LsqStep, which
\* is InLeastSquares (LsqInit is enabled at "lsq_init", LsqReturn at
\* "lsq_iter").
SpecLive == Spec /\ ([]<>(~InLeastSquares) \/ []<><<LsqStep>>_vars)

-----------------------------------------------------------------------------
\* Programs that call solve_bundle_adjustment and keep a record of it.

\* The calls a caller logs at most.
MaxCalls == 3

\* The files of the callers below: at most one camera and one point.
CallerFiles == {f \in SolveFiles : f.n_cameras <= 1 /\ f.n_points <= 1}

\* The caller logs the call that begins in this step: the use_ceres it
\* passed and the back end the call took.
Logged ==
    proc' = [proc EXCEPT !.calls = Append(@, <<hist'.use_ceres, hist'.backends[1]>>)]

\* One call solve_bundle_adjustment(..., verbose, use_ceres), lines 92-172.
Call(use_ceres, verbose) ==
    /\ pc = "idle"
    /\ \/ \E success \in BOOLEAN :
            CeresBranch(use_ceres, verbose, success, CeresReturned)
       \/ ScipyBranch(use_ceres, verbose, Pattern)
    /\ Logged

\* A process that imported the module once and calls solve_bundle_adjustment
\* again and again on its data.
ProcessCall ==
    /\ Len(proc.calls) < MaxCalls
    /\ \E use_ceres \in BOOLEAN, verbose \in Verbosity : Call(use_ceres, verbose)

NextProcess ==
    \/ ReadBalData(CallerFiles)
    \/ ProcessCall
    \/ LsqInit
    \/ LsqTrial
    \/ LsqReturn

SpecProcess == Init /\ [][NextProcess]_vars

\* main.py.  Lines 26-40: the arguments --solver, --verbose, --engine and
\* --visualize.
Solvers == {"scipy", "ceres", "both"}

Engines == {"matplotlib", "plotly"}

\* The engine as given on the command line.
EngineAsRequested(engine, available) == engine

\* Lines 43-46: a requested Plotly engine is replaced by Matplotlib when the
\* package could not import its Plotly visualizers.

EngineFallback(engine, available) ==
    IF engine = "plotly" /\ ~available THEN "matplotlib" ELSE engine

\* Lines 15-46: main's copy of the package's PLOTLY_AVAILABLE (__init__.py
\* lines 5-10: TRUE iff the Plotly visualizers imported), the parsed
\* arguments, the warning of line 44 and the engine after the fallback.
MainArgs(solvers, verbosities, engines, flags, availabilities) ==
    /\ pc = "start"
    /\ proc.solver = "none"
    /\ \E solver \in solvers, verbose \in verbosities, engine \in engines,
          visualize \in flags, available \in availabilities :
         proc' = [proc EXCEPT
                     !.solver = solver,
                     !.verbose = verbose,
                     !.visualize = visualize,
                     !.PLOTLY_AVAILABLE = available,
                     !.warned = (engine = "plotly" /\ ~available),
                     !.engine = EngineFallback(engine, available)]
    /\ UNCHANGED <<CERES_AVAILABLE, pc, arrays, ret, x0, A, lsq, hist, out>>

\* A run without --visualize and with --engine matplotlib.
MainParse ==
    /\ proc = NoProc
    /\ MainArgs(Solvers, Verbosity, {"matplotlib"}, {FALSE}, {FALSE})

\* A run with any --engine, with or without --visualize, with or without
\* Plotly installed.
MainParseVisual ==
    /\ proc = NoProc
    /\ MainArgs(Solvers, Verbosity, Engines, BOOLEAN, BOOLEAN)

\* Line 49.
MainRead ==
    /\ proc.solver # "none"
    /\ ReadBalData(CallerFiles)

\* Lines 64-68: x0 and f0; an exception ends main.
MainResiduals ==
    /\ ret.op = "read_bal_data"
    /\ ret.err = "none"
    /\ CallComputeResiduals

\* Lines 74-77 (--solver both: the SciPy run) and 104-107 (one solver).
MainSolveFirst ==
    /\ ret.op = "compute_residuals"
    /\ ret.err = "none"
    /\ Call(proc.solver = "ceres", proc.verbose)

\* Lines 82-85: the second run of --solver both, with use_ceres=True, once
\* the first has returned.
MainSolveSecond ==
    /\ proc.solver = "both"
    /\ Len(proc.calls) = 1
    /\ ret.op = "solve_bundle_adjustment"
    /\ ret.err = "none"
    /\ Call(TRUE, proc.verbose)

\* Lines 94-100 and 110-113: the result of the last run is displayed, under
\* the title "Final Results (Ceres)" when both solvers ran, and is the one
\* the visualization gets.
MainDisplay ==
    /\ pc = "idle"
    /\ ret.op = "solve_bundle_adjustment"
    /\ ret.err = "none"
    /\ proc.shown = <<>>
    /\ proc.solver = "both" => Len(proc.calls) = 2
    /\ proc' = [proc EXCEPT !.shown =
                   <<[title |-> IF proc.solver = "both"
                                THEN "Final Results (Ceres)" ELSE "",
                      x     |-> ret.val.x]>>]
    /\ UNCHANGED <<CERES_AVAILABLE, pc, arrays, ret, x0, A, lsq, hist, out>>

\* Lines 116-173: after the display, under --visualize only, the two
\* visualizers of the engine are called, in the order of the code.
MainVisualize ==
    /\ pc = "idle"
    /\ proc.shown # <<>>
    /\ proc.visualize
    /\ proc.drawn = <<>>
    /\ proc' = [proc EXCEPT !.drawn =
                   IF proc.engine = "plotly"
                   THEN <<"visualize_reconstruction_plotly",
                          "plot_residuals_plotly">>
                   ELSE <<"plot_residuals", "visualize_reconstruction">>]
    /\ UNCHANGED <<CERES_AVAILABLE, pc, arrays, ret, x0, A, lsq, hist, out>>

NextMain ==
    \/ MainParse
    \/ MainRead
    \/ MainResiduals
    \/ MainSolveFirst
    \/ MainSolveSecond
    \/ MainDisplay
    \/ LsqInit
    \/ LsqTrial
    \/ LsqReturn

SpecMain == Init /\ [][NextMain]_vars

NextVisual ==
    \/ MainParseVisual
    \/ MainRead
    \/ MainResiduals
    \/ MainSolveFirst
    \/ MainSolveSecond
    \/ MainDisplay
    \/ MainVisualize
    \/ LsqInit
    \/ LsqTrial
    \/ LsqReturn

SpecVisual == Init /\ [][NextVisual]_vars

-----------------------------------------------------------------------------
\* Properties.

NCameras == Len(camera_params)

NPoints == Len(points_3d)

NObs == Len(camera_indices)

NParams == NCameras * CameraBlock + NPoints * PointBlock

IndicesInRange ==
    InRange(camera_indices, NCameras) /\ InRange(point_indices, NPoints)

SparsityReturned == ret.op = "bundle_adjustment_sparsity" /\ ret.err = "none"

RowCols(nz, r) == {e[2] : e \in {e2 \in nz : e2[1] = r}}

\* C1: for in-range indices bundle_adjustment_sparsity returns a pattern of
\* 2 * n_obs rows and 9 * n_cameras + 3 * n_points columns, and every row has
\* exactly 12 nonzero columns: the 9 of one camera block and the 3 of one
\* point block.
C1_SparsityRows ==
    (ret.op = "bundle_adjustment_sparsity" /\ IndicesInRange) =>
        /\ ret.err = "none"
        /\ ret.val.shape = <<2 * NObs, NParams>>
        /\ \A e \in ret.val.nz : e[1] \in Range(2 * NObs) /\ e[2] \in Range(NParams)
        /\ \A r \in Range(2 * NObs) :
             LET cols == RowCols(ret.val.nz, r)
             IN  /\ Cardinality(cols) = CameraBlock + PointBlock
                 /\ \E c \in Range(NCameras) :
                      {k \in cols : k < NCameras * CameraBlock}
                          = (c * CameraBlock) .. (c * CameraBlock + CameraBlock - 1)
                 /\ \E q \in Range(NPoints) :
                      {k \in cols : k >= NCameras * CameraBlock}
                          = (NCameras * CameraBlock + q * PointBlock)
                            .. (NCameras * CameraBlock + q * PointBlock + PointBlock - 1)

\* A pattern was built for two observations of different cameras and points.
C1_Witness ==
    /\ SparsityReturned
    /\ IndicesInRange
    /\ NObs >= 2
    /\ camera_indices[1] # camera_indices[2]
    /\ point_indices[1] # point_indices[2]

\* The columns observation i (0-based) marks.
ObsCols(i) ==
    LET c == camera_indices[i + 1] * CameraBlock
        q == NCameras * CameraBlock + point_indices[i + 1] * PointBlock
    IN  (c .. (c + CameraBlock - 1)) \cup (q .. (q + PointBlock - 1))

\* C2: with in-range indices, rows 2*i and 2*i+1 are nonzero exactly at
\* columns camera_indices[i]*9 .. +8 and n_cameras*9 + point_indices[i]*3 ..
\* +2, nothing else is nonzero, and the pattern holds n_obs camera blocks
\* and n_obs point blocks (two rows each).
C2_SparsityBlocks ==
    (SparsityReturned /\ IndicesInRange) =>
        /\ ret.val.nz = UNION {{<<2 * i, k>> : k \in ObsCols(i)}
                               \cup {<<2 * i + 1, k>> : k \in ObsCols(i)}
                               : i \in Range(NObs)}
        /\ \A i \in Range(NObs) :
             /\ RowCols(ret.val.nz, 2 * i) = ObsCols(i)
             /\ RowCols(ret.val.nz, 2 * i + 1) = ObsCols(i)
        /\ Cardinality(ret.val.nz) = 2 * NObs * (CameraBlock + PointBlock)

\* A pattern was built for two observations, the second of a later camera
\* and an earlier point than the first.
C2_Witness ==
    /\ SparsityReturned
    /\ IndicesInRange
    /\ NObs >= 2
    /\ camera_indices[1] < camera_indices[2]
    /\ point_indices[1] > point_indices[2]
    /\ ret.val.nz # {}

ResidualsReturned == ret.op = "compute_residuals" /\ ret.err = "none"

\* The residual pair of observation i (0-based): the projection of the one
\* point through the one camera the observation names, minus its pixel.
ObsResidual(i) ==
    LET p  == points_3d[Wrap(point_indices[i + 1], NPoints) + 1]
        c  == camera_params[Wrap(camera_indices[i + 1], NCameras) + 1]
        pr == project(<<p>>, <<c>>).val[1]
    IN  <<QSub(pr[1], Q(points_2d[i + 1][1])), QSub(pr[2], Q(points_2d[i + 1][2]))>>

\* C3: compute_residuals returns 2 * n_observations entries, observation by
\* observation: entries 2*i and 2*i+1 are the x and y of
\* project(point[point_indices[i]], camera[camera_indices[i]]) minus pixel i,
\* a value of that one camera and that one point only.
C3_ResidualLayout ==
    ResidualsReturned =>
        /\ Len(ret.val.fun) = 2 * NObs
        /\ \A i \in Range(NObs) :
             /\ ret.val.fun[2 * i + 1] = ObsResidual(i)[1]
             /\ ret.val.fun[2 * i + 2] = ObsResidual(i)[2]

\* Residuals were returned for two observations of different cameras whose
\* four entries differ from one another.
C3_Witness ==
    /\ ResidualsReturned
    /\ NObs >= 2
    /\ camera_indices[1] # camera_indices[2]
    /\ Cardinality({ret.val.fun[k] : k \in 1 .. 4}) = 4
    /\ \A k \in 1 .. 4 : QFinite(ret.val.fun[k])

\* x is the camera blocks followed by the point blocks of the caller's arrays.
IsPacked(x) ==
    /\ Len(x) = NParams
    /\ \A c \in Range(NCameras) : \A k \in Range(CameraBlock) :
         x[c * CameraBlock + k + 1] = camera_params[c + 1][k + 1]
    /\ \A q \in Range(NPoints) : \A k \in Range(PointBlock) :
         x[NCameras * CameraBlock + q * PointBlock + k + 1] = points_3d[q + 1][k + 1]

\* C4: the packed vector (x0 of solve_bundle_adjustment_scipy, and the vector
\* main passes to compute_residuals) has length 9*n_cameras + 3*n_points,
\* camera c at x0[9c .. 9c+8] and point p at x0[9*n_cameras+3p .. +2], and
\* the unpacking of compute_residuals gives back camera_params and points_3d.
C4_PackRoundTrip ==
    /\ pc \in {"lsq_init", "lsq_iter"} =>
         /\ IsPacked(x0)
         /\ UnpackCameras(x0, NCameras) = camera_params
         /\ UnpackPoints(x0, NCameras, NPoints) = points_3d
    /\ ret.op = "compute_residuals" =>
         /\ IsPacked(ret.val.params_in)
         /\ UnpackCameras(ret.val.params_in, NCameras) = camera_params
         /\ UnpackPoints(ret.val.params_in, NCameras, NPoints) = points_3d

\* least_squares runs on the packed vector of two cameras and two points.
C4_Witness ==
    /\ pc = "lsq_iter"
    /\ NCameras >= 2
    /\ NPoints >= 2
    /\ Len(x0) = NParams

SolveReturned == ret.op = "solve_bundle_adjustment" /\ ret.err = "none"


\* The input SciPy can work on: indices in range, at least one observation,
\* finite residuals at the start.
GoodProblem ==
    /\ IndicesInRange
    /\ NObs > 0
    /\ AllFinite(Fun(Pack(camera_params, points_3d)).val)

\* C5: a call runs exactly one back end: Ceres when use_ceres is true and
\* CERES_AVAILABLE, SciPy in every other case; a request for Ceres without the
\* extension runs SciPy and raises only what SciPy raises for the data.
C5_Dispatch ==
    hist.backends # <<>> =>
        /\ Len(hist.backends) = 1
        /\ hist.backends[1] =
               IF hist.use_ceres /\ CERES_AVAILABLE THEN "ceres" ELSE "scipy"
        /\ (/\ hist.use_ceres
            /\ ~CERES_AVAILABLE
            /\ ret.op = "solve_bundle_adjustment"
            /\ GoodProblem) => ret.err = "none"

\* Ceres was requested without the extension and SciPy returned a result.
C5_Witness ==
    /\ hist.use_ceres
    /\ ~CERES_AVAILABLE
    /\ hist.backends = <<"scipy">>
    /\ SolveReturned
    /\ out # <<>>

\* C6: input with an index out of range never reaches an optimization
\* iteration and never comes back as a result.
C6_InvalidInputRejected ==
    (pc # "start" /\ ~IndicesInRange) =>
        /\ pc # "lsq_iter"
        /\ ~SolveReturned

\* C7: every index read_bal_data returns is in range.
C7_LoaderBounds ==
    (ret.op = "read_bal_data" /\ ret.err = "none") => IndicesInRange

\* C8: no call changes the caller's arrays, compute_residuals leaves its
\* params as passed, and the optimizer leaves the packed x0 alone.
C8_InputsReadOnly ==
    [][/\ pc # "start" => arrays' = arrays
       /\ ret'.op = "compute_residuals" => ret'.val.params_out = ret'.val.params_in
       /\ (InLeastSquares /\ InLeastSquares') => x0' = x0]_vars

\* project returned for cameras that do not rotate but do translate.
C8_Witness ==
    /\ ret.op = "project"
    /\ NCameras >= 1
    /\ \A c \in 1 .. NCameras :
         /\ SubSeq(camera_params[c], 1, 3) = <<0, 0, 0>>
         /\ SubSeq(camera_params[c], 4, 6) # <<0, 0, 0>>

C10_SparsityOnce ==
    /\ InLeastSquares =>
         /\ hist.builds = 1
         /\ A = bundle_adjustment_sparsity(NCameras, NPoints, camera_indices,
                                           point_indices).val
    /\ hist.evals > 0 => hist.builds = 1
    /\ hist.backends = <<"scipy">> => hist.builds = 1

\* The optimizer has moved away from x0 and used its evaluations.
C10_Witness ==
    /\ pc = "lsq_iter"
    /\ lsq.nfev = MaxNfev
    /\ lsq.x # x0
    /\ A # {}

\* The cost of the caller's arrays, packed: the cost the optimizer starts from.
InitialCost == Cost(Fun(Pack(camera_params, points_3d)).val)

RotateReturned == ret.op = "rotate" /\ ret.err = "none"

\* The rotation vector rotate was given for row i (1-based).
RotVec(i) == SubSeq(camera_params[i], 1, 3)

\* C14: for a rotation vector of magnitude below the epsilon (in this model:
\* of magnitude 0) rotate returns the point as it is, and gets there without
\* dividing by zero: no quotient rot_vecs / theta is a nan, and no entry of
\* the result is.
C14_ZeroRotationGuarded ==
    RotateReturned =>
        \A i \in DOMAIN points_3d :
            Theta(RotVec(i)) = 0 =>
                /\ ret.val.rotated[i] = points_3d[i]
                /\ \A k \in 1 .. 3 : ret.val.quotients[i][k] # <<0, 0>>

\* What C15 says project computes for one point and one camera, step by step.
ExpectedSteps(p, cam) ==
    LET rotated    == Rodrigues(p, <<cam[1], cam[2], cam[3]>>)
        translated == <<rotated[1] + cam[4], rotated[2] + cam[5],
                        rotated[3] + cam[6]>>
        x == QDiv(QNeg(Q(translated[1])), Q(translated[3]))
        y == QDiv(QNeg(Q(translated[2])), Q(translated[3]))
        n == QAdd(QMul(x, x), QMul(y, y))
        r == QAdd(QAdd(Q(1), QMul(Q(cam[8]), n)), QMul(Q(cam[9]), QMul(n, n)))
    IN  [r |-> r,
         pixel |-> <<QMul(x, QMul(r, Q(cam[7]))), QMul(y, QMul(r, Q(cam[7])))>>]

\* The residuals C15's steps give for the parameter vector x.
ExpectedResiduals(x) ==
    LET cams == UnpackCameras(x, NCameras)
        pts  == UnpackPoints(x, NCameras, NPoints)
    IN  Ravel([i \in 1 .. NObs |->
                 LET e == ExpectedSteps(
                              pts[Wrap(point_indices[i], NPoints) + 1],
                              cams[Wrap(camera_indices[i], NCameras) + 1]).pixel
                 IN  <<QSub(e[1], Q(points_2d[i][1])),
                       QSub(e[2], Q(points_2d[i][2]))>>])

\* C15: project rotates by parameters 0-2, adds parameters 3-5, negates x and
\* y and divides by the depth, takes n = x^2 + y^2 of the normalized
\* coordinates and r = 1 + k1*n + k2*n^2 with parameters 7 and 8, and scales by
\* r times parameter 6: a direct call returns these pixels, and every residual
\* vector the program computes is these pixels minus the observed ones.
C15_ProjectSteps ==
    /\ ret.op = "project" =>
         ret.val.pixels = [i \in DOMAIN points_3d |->
                              ExpectedSteps(points_3d[i], camera_params[i]).pixel]
    /\ ResidualsReturned =>
         ret.val.fun = ExpectedResiduals(ret.val.params_in)
    /\ pc = "lsq_iter" => lsq.f = ExpectedResiduals(lsq.x)

\* The optimizer holds the residual of a point seen by a camera that rotates
\* and whose distortion factor r is finite and not 1.
C15_Witness ==
    /\ pc = "lsq_iter"
    /\ IndicesInRange
    /\ \E i \in 1 .. NObs :
         LET cam == UnpackCameras(lsq.x, NCameras)[camera_indices[i] + 1]
             p   == UnpackPoints(lsq.x, NCameras, NPoints)[point_indices[i] + 1]
             e   == ExpectedSteps(p, cam)
         IN  /\ SubSeq(cam, 1, 3) # <<0, 0, 0>>
             /\ QFinite(e.r)
             /\ e.r # Q(1)
             /\ e.pixel[2] # Q(0)
             /\ QFinite(lsq.f[2 * i])

\* The pairs of distinct observations (0-based) of one camera and one point.
Duplicates ==
    {d \in Range(NObs) \X Range(NObs) :
        /\ d[1] # d[2]
        /\ camera_indices[d[1] + 1] = camera_indices[d[2] + 1]
        /\ point_indices[d[1] + 1] = point_indices[d[2] + 1]}

\* C16: two observations i # j of the same camera and point keep their own
\* row pairs 2i, 2i+1 and 2j, 2j+1 with the same 12 columns, the pattern keeps
\* 2 * n_obs rows, every column holds one entry per row of every observation
\* that touches it (so repeated observations add up), and each of the two
\* keeps its own residual pair: the same projection minus its own pixel.
C16_DuplicateObservations ==
    (IndicesInRange /\ Duplicates # {}) =>
        /\ SparsityReturned =>
             /\ ret.val.shape[1] = 2 * NObs
             /\ \A d \in Duplicates :
                  /\ RowCols(ret.val.nz, 2 * d[1]) = ObsCols(d[1])
                  /\ RowCols(ret.val.nz, 2 * d[1] + 1) = ObsCols(d[1])
                  /\ RowCols(ret.val.nz, 2 * d[2]) = ObsCols(d[1])
                  /\ RowCols(ret.val.nz, 2 * d[2] + 1) = ObsCols(d[1])
                  /\ Cardinality(ObsCols(d[1])) = CameraBlock + PointBlock
             /\ \A k \in Range(NParams) :
                  Cardinality({e \in ret.val.nz : e[2] = k})
                      = 2 * Cardinality({o \in Range(NObs) : k \in ObsCols(o)})
        /\ ResidualsReturned =>
             /\ Len(ret.val.fun) = 2 * NObs
             /\ \A d \in Duplicates : \A c \in 1 .. 2 :
                  QAdd(ret.val.fun[2 * d[1] + c], Q(points_2d[d[1] + 1][c]))
                      = QAdd(ret.val.fun[2 * d[2] + c], Q(points_2d[d[2] + 1][c]))

\* A pattern was built for two observations of the same camera and point.
C16_Witness ==
    /\ SparsityReturned
    /\ IndicesInRange
    /\ Duplicates # {}
    /\ ret.val.nz # {}

\* C18: a call with verbose = 0 is silent on every path: whichever back end
\* ran, with or without the fall-back, the call emitted no message of its own.
C18_SilentWhenVerboseZero ==
    (hist.backends # <<>> /\ hist.verbose = 0) => out = <<>>

\* C19: the availability of the extension is fixed at import: no step writes
\* CERES_AVAILABLE, every call takes the back end that flag and its use_ceres
\* give, and any two calls of one process with the same use_ceres took the
\* same back end.
C19_AvailabilityFixed ==
    /\ [][CERES_AVAILABLE' = CERES_AVAILABLE]_vars
    /\ [](\A i, j \in DOMAIN proc.calls :
            proc.calls[i][1] = proc.calls[j][1] =>
                proc.calls[i][2] = proc.calls[j][2])
    /\ [](\A i \in DOMAIN proc.calls :
            proc.calls[i][2] =
                IF proc.calls[i][1] /\ CERES_AVAILABLE THEN "ceres" ELSE "scipy")

\* A process made three calls, two of them with the same use_ceres and one
\* with the other, and the last one returned.
C19_Witness ==
    /\ Len(proc.calls) = 3
    /\ proc.calls[1][1] = proc.calls[3][1]
    /\ proc.calls[2][1] # proc.calls[1][1]
    /\ pc = "idle"
    /\ SolveReturned

\* C20: what main shows under "Final Results (Ceres)" is the result of its
\* second run, that run was made by the Ceres back end, and it began after
\* the SciPy run had returned.
C20_CeresResultShown ==
    (proc.shown # <<>> /\ proc.shown[1].title = "Final Results (Ceres)") =>
        /\ Len(proc.calls) = 2
        /\ proc.calls[1] = <<FALSE, "scipy">>
        /\ proc.shown[1].x = ret.val.x
        /\ proc.calls[2][2] = "ceres"
        /\ hist.backends = <<"ceres">>

\* C21: whatever the header's counts, zero included, read_bal_data returns:
\* camera_params with 9 scalars per camera, points_3d with 3 per point, and
\* one camera index, one point index and one pixel per observation line.
C21_LoaderLayout ==
    ret.op = "read_bal_data" =>
        /\ ret.err = "none"
        /\ \A c \in DOMAIN camera_params : Len(camera_params[c]) = CameraBlock
        /\ \A q \in DOMAIN points_3d : Len(points_3d[q]) = PointBlock
        /\ Len(camera_indices) = Len(points_2d)
        /\ Len(point_indices) = Len(points_2d)
        /\ \A i \in DOMAIN points_2d : Len(points_2d[i]) = 2

\* C22: the engine is never "plotly" once the arguments are parsed unless
\* the Plotly visualizers imported, so it is switched before anything is read
\* or solved; a visualizer is called only under --visualize, only after the
\* last solver call returned and its result was displayed, and never a
\* Plotly one when PLOTLY_AVAILABLE is false.
PlotlyVisualizers == {"visualize_reconstruction_plotly", "plot_residuals_plotly"}

C22_NoPlotlyWhenUnavailable ==
    /\ proc.engine = "plotly" => proc.PLOTLY_AVAILABLE
    /\ proc.solver = "none" => pc = "start" /\ hist = NoHist
    /\ proc.drawn # <<>> =>
          /\ proc.visualize
          /\ pc = "idle"
          /\ ret.op = "solve_bundle_adjustment" /\ ret.err = "none"
          /\ Len(proc.calls) = IF proc.solver = "both" THEN 2 ELSE 1
          /\ proc.shown # <<>>
          /\ ~proc.PLOTLY_AVAILABLE =>
                \A i \in DOMAIN proc.drawn : proc.drawn[i] \notin PlotlyVisualizers

\* Plotly was requested, is not installed, and the run drew with Matplotlib.
C22_Witness ==
    /\ proc.warned
    /\ proc.visualize
    /\ proc.drawn = <<"plot_residuals", "visualize_reconstruction">>

====
